---- MODULE Spec2Model ----
(***************************************************************************)
(* QuantMarket-Lab: the analysis engine (src/src/analysis_engine.py).      *)
(*                                                                         *)
(* A table (pandas DataFrame) is a sequence of rows, each row a record of  *)
(* its columns.  A Date is the number of days since 2024-01-01, which is a *)
(* Monday.  Prices are integers.  A percentage is kept as the exact        *)
(* fraction num/den.  A value that may be NaN (the max of an empty Series) *)
(* is a set: {} for NaN, {v} for the value v.                              *)
(***************************************************************************)
EXTENDS Integers, Sequences, FiniteSets, TLC

VARIABLES
    df,                \* the caller's table, the argument of run_analysis
    point_multiplier,  \* argument of run_analysis
    point_decimals,    \* argument of run_analysis
    df_analysis,       \* first result of run_analysis (the enriched table)
    summary_stats,     \* second result of run_analysis (a dict)
    day_of_week_dist,  \* result of calculate_day_of_week_distribution
    pc,                \* position of the caller: "start", "full", "loaded",
                       \* "analysed", "done", "exit"
    processed_csv,     \* data/processed/<asset>/<asset>.csv
    df_full,           \* main_cli: the table load_asset_data returned
    start_date,        \* main_cli: {} for None, {d} for the date d
    end_date,          \* main_cli: {} for None, {d} for the date d
    raw_csv,           \* data/raw/<asset>/<asset>.csv
    df_raw,            \* 2_data_cleaning: the table read from the raw file
    df_clean,          \* 2_data_cleaning: what clean_and_validate_data returned
    outputs,           \* main_cli: what exists under results/ ("dir", "report",
                       \* "csv", "plots")
    calls,             \* the engine functions invoked so far, with the number
                       \* of rows each was given
    backup_settings,   \* master_config.yml: enable_backups, max_backups_per_asset
    backups,           \* _Backups/<asset>/: files as [day, rows, mtime]
    today,             \* the calendar day, as pd.Timestamp.now() gives it
    clock,             \* the time, one tick per run of the acquisition
    raw_mtime,         \* modification time of the raw file
    asset_type         \* asset_config["type"]

cliVars == <<processed_csv, df_full, start_date, end_date>>

cleanVars == <<raw_csv, df_raw, df_clean>>

engineVars ==
    <<df, point_multiplier, point_decimals, df_analysis, summary_stats,
      day_of_week_dist>>

outVars == <<outputs, calls>>

acqVars == <<backup_settings, backups, today, clock, raw_mtime, asset_type>>

vars == <<df, point_multiplier, point_decimals, df_analysis, summary_stats,
          day_of_week_dist, pc, cliVars, cleanVars, outVars, acqVars>>

-----------------------------------------------------------------------------
(* Bounds of the model *)

MaxRows == 3
MaxStreakRows == 7
MaxPointRows == 2
MaxPrice == 3
MaxConfigRows == 2
MaxDecimals == 3
MaxCliRows == 3
MaxCliWindow == 4
FirstCliDate == 29
MaxRawRows == 3
MaxRawDate == 1
MaxDefectRows == 1
MaxRawPrice == 2
MaxRuns == 3
MaxDays == 2
MaxBackups == 2
MaxFetchPrice == 2

(* Program constants *)

DefaultPointMultiplier == 10
DefaultPointDecimals == 2

\* Date 0 is Monday 2024-01-01.
Epoch == <<2024, 1, 1>>

-----------------------------------------------------------------------------
(* Values *)

NaN == "NaN"

\* The labels 2_data_cleaning.py writes, and one label it never writes.
CleanLabels == {"UP", "DOWN", "Break Even"}
Labels == CleanLabels \cup {"Flat"}

DayNames == <<"Monday", "Tuesday", "Wednesday", "Thursday", "Friday",
              "Saturday", "Sunday">>

days_order == <<"Monday", "Tuesday", "Wednesday", "Thursday", "Friday">>
directions_order == <<"UP", "DOWN", "Break Even">>

\* pandas sorts group keys: the lexicographic order of the names that occur.
SortedDayNames == <<"Friday", "Monday", "Saturday", "Sunday", "Thursday",
                    "Tuesday", "Wednesday">>
SortedLabels == <<"Break Even", "DOWN", "Flat", "UP">>

Range(s) == {s[i] : i \in DOMAIN s}

Abs(x) == IF x < 0 THEN -x ELSE x

Max2(a, b) == IF a >= b THEN a ELSE b
Min2(a, b) == IF a <= b THEN a ELSE b

RECURSIVE SumSeq(_)
SumSeq(s) == IF Len(s) = 0 THEN 0 ELSE Head(s) + SumSeq(Tail(s))

SetMax(S) == CHOOSE m \in S : \A x \in S : x <= m
SetMin(S) == CHOOSE m \in S : \A x \in S : m <= x

\* Series.max(): NaN for an empty Series.
SeriesMax(S) == IF S = {} THEN {} ELSE {SetMax(S)}
isna(x) == x = {}
int(x) == CHOOSE v \in x : TRUE

-----------------------------------------------------------------------------
(* Calendar: Series.dt.day_name() and Timestamp.strftime('%Y-%m-%d') *)

\* Weekday counted from a Sunday.
day_name_from_sunday(d) == DayNames[((d + 6) % 7) + 1]

day_name(d) == DayNames[(d % 7) + 1]

IsLeap(y) == (y % 4 = 0 /\ y % 100 # 0) \/ y % 400 = 0
DaysInYear(y) == IF IsLeap(y) THEN 366 ELSE 365
DaysInMonth(y, m) ==
    IF m = 2 THEN (IF IsLeap(y) THEN 29 ELSE 28)
    ELSE IF m \in {4, 6, 9, 11} THEN 30 ELSE 31

RECURSIVE CivilFrom(_, _, _)
CivilFrom(y, m, d) ==
    IF d >= DaysInYear(y) /\ m = 1 THEN CivilFrom(y + 1, 1, d - DaysInYear(y))
    ELSE IF d >= DaysInMonth(y, m) THEN CivilFrom(y, m + 1, d - DaysInMonth(y, m))
    ELSE <<y, m, d + 1>>

\* 'YYYY-MM-DD' as the triple <<year, month, day>>.
strftime(d) == CivilFrom(Epoch[1], Epoch[2], d + Epoch[3] - 1)

\* pd.to_datetime of 'YYYY-MM-DD': the days from the epoch to that date.
RECURSIVE DaysBeforeYear(_)
DaysBeforeYear(y) ==
    IF y <= Epoch[1] THEN 0 ELSE DaysInYear(y - 1) + DaysBeforeYear(y - 1)

RECURSIVE DaysBeforeMonth(_, _)
DaysBeforeMonth(y, m) ==
    IF m <= 1 THEN 0 ELSE DaysInMonth(y, m - 1) + DaysBeforeMonth(y, m - 1)

to_datetime(ymd) ==
    DaysBeforeYear(ymd[1]) + DaysBeforeMonth(ymd[1], ymd[2]) + ymd[3] - Epoch[3]

-----------------------------------------------------------------------------
(* run_analysis *)

Column(t, c) == [i \in 1..Len(t) |-> t[i][c]]

\* shift() that fills the first row with the first value instead of NaN.
shift_backfilled(s) == [i \in 1..Len(s) |-> IF i = 1 THEN s[1] ELSE s[i - 1]]

\* Series.shift(): every value moves one row down, the first row becomes NaN.
shift(s) == [i \in 1..Len(s) |-> IF i = 1 THEN NaN ELSE s[i - 1]]

\* Elementwise !=, where NaN differs from everything, itself included.
ne(a, b) == a = NaN \/ b = NaN \/ a # b

\* Series.cumsum() of a boolean Series.
RECURSIVE cumsum(_)
cumsum(b) ==
    IF Len(b) = 0 THEN <<>>
    ELSE LET front == cumsum(SubSeq(b, 1, Len(b) - 1))
             last == IF b[Len(b)] THEN 1 ELSE 0
         IN  Append(front, (IF Len(front) = 0 THEN 0 ELSE front[Len(front)]) + last)

\* (Direction != Direction.shift()).cumsum()
streak_group(dir) ==
    cumsum([i \in 1..Len(dir) |-> ne(dir[i], shift(dir)[i])])

\* groupby('streak_group')['Direction'].agg(['first', 'size'])
streaks(t) ==
    LET keys == {t[i].streak_group : i \in 1..Len(t)}
        rows(k) == {i \in 1..Len(t) : t[i].streak_group = k}
    IN  [k \in keys |-> [first |-> t[SetMin(rows(k))].Direction,
                         size |-> Cardinality(rows(k))]]

\* The label's groups counted (.count()) instead of the largest taken.
longest_streak_counted(st, label) ==
    LET groups == {g \in DOMAIN st : st[g].first = label}
    IN  IF groups = {} THEN {} ELSE {Cardinality(groups)}

\* The largest group of any label taken.
longest_streak_any_direction(st, label) ==
    SeriesMax({st[k].size : k \in DOMAIN st})

\* streaks[streaks['first'] == label]['size'].max()
longest_streak(st, label) ==
    SeriesMax({st[k].size : k \in {g \in DOMAIN st : st[g].first = label}})

\* Every label other than the two remaining known ones counted as label.
count_direction_by_exclusion(t, label) ==
    Cardinality({i \in 1..Len(t) : t[i].Direction \notin (CleanLabels \ {label})})

\* (mask).sum(): the number of rows whose Direction is label
count_direction(t, label) ==
    Cardinality({i \in 1..Len(t) : t[i].Direction = label})

\* df.loc[Direction == label, 'Points_Display']
points_of(t, label) ==
    SelectSeq(t, LAMBDA r : r.Direction = label)

total_up_points(t) ==
    SumSeq([i \in 1..Len(points_of(t, "UP")) |-> points_of(t, "UP")[i].Points_Display])

\* abs() taken of the sum instead of each row.
total_down_points_abs_of_sum(t) ==
    Abs(SumSeq([i \in 1..Len(points_of(t, "DOWN")) |->
                    points_of(t, "DOWN")[i].Points_Display]))

total_down_points(t) ==
    SumSeq([i \in 1..Len(points_of(t, "DOWN")) |->
                Abs(points_of(t, "DOWN")[i].Points_Display)])

net_points(t) == SumSeq(Column(t, "Points_Display"))

\* The fraction without the factor 100.
pct_fraction(count, total_days) ==
    IF total_days > 0 THEN [num |-> count, den |-> total_days]
    ELSE [num |-> 0, den |-> 1]

\* (count / total_days) * 100 if total_days > 0 else 0
pct(count, total_days) ==
    IF total_days > 0 THEN [num |-> count * 100, den |-> total_days]
    ELSE [num |-> 0, den |-> 1]

\* A copy with the newest row first.
copy_newest_first(t) == [i \in 1..Len(t) |-> t[Len(t) + 1 - i]]

\* df.copy(): a new table with the same rows and columns
copy(t) == [i \in 1..Len(t) |-> t[i]]

\* Raw_Points taken as Open - Close.
enrich_open_minus_close(t, pm) ==
    [i \in 1..Len(t) |->
        [Date |-> t[i].Date, Open |-> t[i].Open, High |-> t[i].High,
         Low |-> t[i].Low, Close |-> t[i].Close, Direction |-> t[i].Direction,
         Day_Name |-> day_name(t[i].Date),
         Raw_Points |-> t[i].Open - t[i].Close,
         Points_Display |-> (t[i].Open - t[i].Close) * pm]]

\* The three engineered columns, added to the copy
enrich(t, pm) ==
    LET c == copy(t)
    IN  [i \in 1..Len(c) |->
            [Date |-> c[i].Date, Open |-> c[i].Open, High |-> c[i].High,
             Low |-> c[i].Low, Close |-> c[i].Close, Direction |-> c[i].Direction,
             Day_Name |-> day_name(c[i].Date),
             Raw_Points |-> c[i].Close - c[i].Open,
             Points_Display |-> (c[i].Close - c[i].Open) * pm]]

\* df_analysis['streak_group'] = ...
with_streak_group(t) ==
    LET sg == streak_group(Column(t, "Direction"))
    IN  [i \in 1..Len(t) |->
            [Date |-> t[i].Date, Open |-> t[i].Open, High |-> t[i].High,
             Low |-> t[i].Low, Close |-> t[i].Close, Direction |-> t[i].Direction,
             Day_Name |-> t[i].Day_Name, Raw_Points |-> t[i].Raw_Points,
             Points_Display |-> t[i].Points_Display,
             streak_group |-> sg[i]]]

\* down_days not subtracted.
break_even_count_not_up(total_days, up_days, down_days) == total_days - up_days

break_even_count(total_days, up_days, down_days) == total_days - up_days - down_days

make_summary_stats(e, t, pm, pdec) ==
    LET total_days == Len(e)
        up_days == count_direction(e, "UP")
        down_days == count_direction(e, "DOWN")
        break_even_days == break_even_count(total_days, up_days, down_days)
        st == streaks(t)
        longest_up_streak == longest_streak(st, "UP")
        longest_down_streak == longest_streak(st, "DOWN")
        longest_break_even_streak == longest_streak(st, "Break Even")
        dates == Range(Column(t, "Date"))
    IN  [total_days |-> total_days,
         up_days |-> up_days,
         down_days |-> down_days,
         break_even_days |-> break_even_days,
         up_pct |-> pct(up_days, total_days),
         down_pct |-> pct(down_days, total_days),
         break_even_pct |-> pct(break_even_days, total_days),
         total_up_points_display |-> total_up_points(t),
         total_down_points_display |-> total_down_points(t),
         net_points_display |-> net_points(t),
         longest_up_streak |->
             IF isna(longest_up_streak) THEN 0 ELSE int(longest_up_streak),
         longest_down_streak |->
             IF isna(longest_down_streak) THEN 0 ELSE int(longest_down_streak),
         longest_break_even_streak |->
             IF isna(longest_break_even_streak) THEN 0
             ELSE int(longest_break_even_streak),
         point_multiplier |-> pm,
         point_decimals |-> pdec,
         actual_start_date |-> strftime(SetMin(dates)),
         actual_end_date |-> strftime(SetMax(dates))]

\* The no-data result returned for a single row too (len(df) <= 1).
run_analysis_guard_one(t, pm, pdec) ==
    IF Len(t) <= 1 THEN [table |-> <<>>, stats |-> <<>>]
    ELSE LET e == enrich(t, pm)
             a == with_streak_group(e)
         IN  [table |-> a, stats |-> make_summary_stats(e, a, pm, pdec)]

\* No early return: an empty table gets statistics of zeros.
run_analysis_zero_stats(t, pm, pdec) ==
    IF Len(t) = 0
    THEN [table |-> <<>>,
          stats |-> [total_days |-> 0, up_days |-> 0, down_days |-> 0,
                     break_even_days |-> 0, up_pct |-> pct(0, 0),
                     down_pct |-> pct(0, 0), break_even_pct |-> pct(0, 0),
                     point_multiplier |-> pm, point_decimals |-> pdec]]
    ELSE LET e == enrich(t, pm)
             a == with_streak_group(e)
         IN  [table |-> a, stats |-> make_summary_stats(e, a, pm, pdec)]

\* The two configuration arguments taken in the other order.
run_analysis_swapped_config(t, pm, pdec) ==
    IF Len(t) = 0 THEN [table |-> <<>>, stats |-> <<>>]
    ELSE LET e == enrich(t, pdec)
             a == with_streak_group(e)
         IN  [table |-> a, stats |-> make_summary_stats(e, a, pdec, pm)]

\* The pair run_analysis returns: an empty table and an empty dict for an
\* empty table.
run_analysis(t, pm, pdec) ==
    IF Len(t) = 0 THEN [table |-> <<>>, stats |-> <<>>]
    ELSE LET e == enrich(t, pm)
             a == with_streak_group(e)
         IN  [table |-> a, stats |-> make_summary_stats(e, a, pm, pdec)]

\* df_analysis = df: the working table is the caller's own object.
working_object_aliased(obj) == obj

\* The object the name df_analysis is bound to: df.copy() makes a new one.
working_object(obj) == "copy"

\* The caller's table once run_analysis has returned: the column
\* assignments land on the working object, and only after the early return.
caller_table_after(t, result) ==
    IF Len(t) > 0 /\ working_object("caller") = "caller" THEN result ELSE t

-----------------------------------------------------------------------------
(* calculate_day_of_week_distribution *)

EmptyFrame == [index |-> <<>>, columns |-> <<>>, cells |-> <<>>]

\* A cell tells whether the pair occurs, not how often.
unstack_presence(t) ==
    LET days == {t[i].Day_Name : i \in 1..Len(t)}
        dirs == {t[i].Direction : i \in 1..Len(t)}
    IN  [index |-> SelectSeq(SortedDayNames, LAMBDA d : d \in days),
         columns |-> SelectSeq(SortedLabels, LAMBDA c : c \in dirs),
         cells |-> [d \in days |-> [c \in dirs |->
            IF \E i \in 1..Len(t) : t[i].Day_Name = d /\ t[i].Direction = c
            THEN 1 ELSE 0]]]

\* groupby('Day_Name')['Direction'].value_counts().unstack(fill_value=0)
unstack_counts(t) ==
    LET days == {t[i].Day_Name : i \in 1..Len(t)}
        dirs == {t[i].Direction : i \in 1..Len(t)}
    IN  [index |-> SelectSeq(SortedDayNames, LAMBDA d : d \in days),
         columns |-> SelectSeq(SortedLabels, LAMBDA c : c \in dirs),
         cells |-> [d \in days |-> [c \in dirs |->
            Cardinality({i \in 1..Len(t) :
                            t[i].Day_Name = d /\ t[i].Direction = c})]]]

\* Rows outside the order kept after it instead of dropped.
reindex_index_keeping(f, order) ==
    [index |-> order \o SelectSeq(f.index, LAMBDA d : d \notin Range(order)),
     columns |-> f.columns,
     cells |-> [d \in Range(order) \cup Range(f.index) |->
        IF d \in Range(f.index) THEN f.cells[d]
        ELSE [c \in Range(f.columns) |-> 0]]]

\* DataFrame.reindex(index=order, fill_value=0)
reindex_index(f, order) ==
    [index |-> order,
     columns |-> f.columns,
     cells |-> [d \in Range(order) |->
        IF d \in Range(f.index) THEN f.cells[d]
        ELSE [c \in Range(f.columns) |-> 0]]]

\* Columns put in order, absent ones not added.
reindex_columns_present(f, order) ==
    [index |-> f.index,
     columns |-> SelectSeq(order, LAMBDA c : c \in Range(f.columns)),
     cells |-> [d \in Range(f.index) |->
        [c \in Range(order) \cap Range(f.columns) |-> f.cells[d][c]]]]

\* DataFrame.reindex(columns=order, fill_value=0)
reindex_columns(f, order) ==
    [index |-> f.index,
     columns |-> order,
     cells |-> [d \in Range(f.index) |-> [c \in Range(order) |->
        IF c \in Range(f.columns) THEN f.cells[d][c] ELSE 0]]]

\* No early return for an empty table.
calculate_day_of_week_distribution_unguarded(t) ==
    reindex_columns(reindex_index(unstack_counts(t), days_order), directions_order)

calculate_day_of_week_distribution(t) ==
    IF Len(t) = 0 THEN EmptyFrame
    ELSE reindex_columns(reindex_index(unstack_counts(t), days_order),
                         directions_order)

-----------------------------------------------------------------------------
(* load_asset_data and filter_data_by_date *)

\* A row put where it belongs among rows already ascending by Date.
RECURSIVE insert_by_date(_, _)
insert_by_date(sorted, r) ==
    IF Len(sorted) = 0 THEN <<r>>
    ELSE IF sorted[Len(sorted)].Date <= r.Date THEN Append(sorted, r)
    ELSE Append(insert_by_date(SubSeq(sorted, 1, Len(sorted) - 1), r),
                sorted[Len(sorted)])

\* The file's order kept.
keep_file_order(t) == t

\* df.sort_values(by='Date')
RECURSIVE sort_values_by_date(_)
sort_values_by_date(t) ==
    IF Len(t) = 0 THEN <<>>
    ELSE insert_by_date(sort_values_by_date(SubSeq(t, 1, Len(t) - 1)), t[Len(t)])

\* pd.read_csv and df['Date'] = pd.to_datetime(df['Date'])
read_csv(rows) ==
    [i \in 1..Len(rows) |->
        [Date |-> to_datetime(rows[i].Date), Open |-> rows[i].Open,
         High |-> rows[i].High, Low |-> rows[i].Low, Close |-> rows[i].Close,
         Direction |-> rows[i].Direction]]

\* The table load_asset_data returns for a file that exists.
load_asset_data(rows) == sort_values_by_date(read_csv(rows))

\* The end bound not applied.
filter_data_by_date_from_start(t, start, end) ==
    IF Len(t) = 0 THEN <<>>
    ELSE LET dates == Range(Column(t, "Date"))
             start_ts == IF start # {} THEN int(start) ELSE SetMin(dates)
         IN  SelectSeq(t, LAMBDA r : r.Date >= start_ts)

\* The end bound taken as exclusive.
filter_data_by_date_before_end(t, start, end) ==
    IF Len(t) = 0 THEN <<>>
    ELSE LET dates == Range(Column(t, "Date"))
             start_ts == IF start # {} THEN int(start) ELSE SetMin(dates)
             end_ts == IF end # {} THEN int(end) ELSE SetMax(dates)
         IN  SelectSeq(t, LAMBDA r : r.Date >= start_ts /\ r.Date < end_ts)

\* filter_data_by_date given None for the table
filter_data_by_date_none(start, end) == <<>>

\* filter_data_by_date, for a table that is not None
filter_data_by_date(t, start, end) ==
    IF Len(t) = 0 THEN <<>>
    ELSE LET dates == Range(Column(t, "Date"))
             start_ts == IF start # {} THEN int(start) ELSE SetMin(dates)
             end_ts == IF end # {} THEN int(end) ELSE SetMax(dates)
         IN  SelectSeq(t, LAMBDA r : r.Date >= start_ts /\ r.Date <= end_ts)

-----------------------------------------------------------------------------
(* clean_and_validate_data *)

\* Cells of a raw file: a 'YYYY-MM-DD' date or text that is no date; a
\* number, an empty cell, or text that is no number.
RawDate(d) == [k |-> "ymd", v |-> strftime(d)]
BadDate == [k |-> "bad", v |-> <<0, 0, 0>>]
Num(n) == [k |-> "num", v |-> n]
Missing == [k |-> "missing", v |-> 0]
Text == [k |-> "text", v |-> 0]

price_cols == <<"Open", "High", "Low", "Close">>

\* pd.to_datetime(errors='coerce'): {} is NaT.
to_datetime_coerce(c) == IF c.k = "ymd" THEN {to_datetime(c.v)} ELSE {}

\* pd.to_numeric(errors='coerce'): {} is NaN.
to_numeric_coerce(c) == IF c.k = "num" THEN {c.v} ELSE {}

\* Step 1: the Date column parsed, rows without a date dropped.
parse_dates(t) ==
    [i \in 1..Len(t) |-> [t[i] EXCEPT !.Date = to_datetime_coerce(@)]]

dropna_date(t) == SelectSeq(t, LAMBDA r : ~isna(r.Date))

\* Repeated dates kept.
drop_duplicates_none(t) == t

\* Step 2: drop_duplicates(subset=['Date'], keep='first')
RECURSIVE drop_duplicates_keep_first(_)
drop_duplicates_keep_first(t) ==
    IF Len(t) = 0 THEN <<>>
    ELSE LET before == drop_duplicates_keep_first(SubSeq(t, 1, Len(t) - 1))
             r == t[Len(t)]
         IN  IF \E i \in 1..Len(before) : before[i].Date = r.Date
             THEN before
             ELSE Append(before, r)

\* Step 3: every price column made numeric.
to_numeric_prices(t) ==
    [i \in 1..Len(t) |->
        [t[i] EXCEPT !.Open = to_numeric_coerce(@), !.High = to_numeric_coerce(@),
                     !.Low = to_numeric_coerce(@), !.Close = to_numeric_coerce(@)]]

\* Step 4: rows with a missing price dropped, then rows with a zero price.
dropna_prices(t) ==
    SelectSeq(t, LAMBDA r : \A j \in 1..Len(price_cols) : ~isna(r[price_cols[j]]))

\* Rows with a zero price kept.
all_prices_nonzero_unfiltered(t) == t

all_prices_nonzero(t) ==
    SelectSeq(t, LAMBDA r : \A j \in 1..Len(price_cols) : int(r[price_cols[j]]) # 0)

\* A Direction the row came with kept.
direction_of_unless_given(r) ==
    IF r.Direction # NaN THEN r.Direction
    ELSE IF int(r.Close) > int(r.Open) THEN "UP"
    ELSE IF int(r.Close) < int(r.Open) THEN "DOWN"
    ELSE "Break Even"

\* Step 5: the Direction of a row.
direction_of(r) ==
    IF int(r.Close) > int(r.Open) THEN "UP"
    ELSE IF int(r.Close) < int(r.Open) THEN "DOWN"
    ELSE "Break Even"

\* Steps 5 and 6: Direction set, the final columns selected.
with_direction(t) ==
    [i \in 1..Len(t) |->
        [Date |-> int(t[i].Date), Open |-> t[i].Open, High |-> t[i].High,
         Low |-> t[i].Low, Close |-> t[i].Close, Direction |-> direction_of(t[i])]]

\* The caller's table after the call: steps 1 to 3 and the dropna of step 4
\* work in place, the zero filter and what follows on a new table.
clean_in_place(t) ==
    dropna_prices(to_numeric_prices(drop_duplicates_keep_first(dropna_date(
        parse_dates(t)))))

\* Prices validated before repeated dates are dropped.
clean_and_validate_data_validating_first(t) ==
    sort_values_by_date(with_direction(drop_duplicates_keep_first(
        all_prices_nonzero(dropna_prices(to_numeric_prices(dropna_date(
            parse_dates(t))))))))

\* A price cell of the returned table is {} for NaN, {v} for the number v.
clean_and_validate_data(t) ==
    sort_values_by_date(with_direction(all_prices_nonzero(clean_in_place(t))))

\* df_clean.to_csv(index=False)
to_csv(t) ==
    [i \in 1..Len(t) |->
        [Date |-> strftime(t[i].Date), Open |-> int(t[i].Open),
         High |-> int(t[i].High), Low |-> int(t[i].Low),
         Close |-> int(t[i].Close), Direction |-> t[i].Direction]]

-----------------------------------------------------------------------------
(* manage_backups and fetch_and_update_asset *)

\* Unlinking only while there are more than max_backups.
backups_to_delete_above(n, max_backups) ==
    IF n > max_backups THEN n - max_backups ELSE 0

\* How many backups the while loop unlinks: as long as there are at least
\* max_backups of them.
backups_to_delete(n, max_backups) ==
    IF n >= max_backups THEN n - max_backups + 1 ELSE 0

\* The sets of k backups that sorted(..., key=os.path.getmtime) can put
\* first: files of equal mtime stay in the order glob gave them, which is
\* any order.
oldest_backups(existing, k) ==
    {D \in SUBSET existing :
        /\ Cardinality(D) = k
        /\ \A d \in D : \A b \in existing \ D : d.mtime <= b.mtime}

\* The backup directory after manage_backups, one result per order of the
\* files of equal mtime. With max_backups <= 0 the loop unlinks every file
\* and then pops from an empty list; the IndexError is caught and nothing
\* is copied.
manage_backups(existing, source, source_mtime, settings, day) ==
    IF ~settings.enable_backups \/ ~source.exists THEN {existing}
    ELSE IF settings.max_backups_per_asset <= 0 THEN {{}}
    ELSE {IF \E b \in existing \ D : b.day = day
          THEN existing \ D
          ELSE (existing \ D)
                   \cup {[day |-> day, rows |-> source.rows, mtime |-> source_mtime]} :
             D \in oldest_backups(existing,
                     backups_to_delete(Cardinality(existing),
                                       settings.max_backups_per_asset))}

\* pd.read_csv(local_file_path, parse_dates=['Date'])
read_raw(rows) ==
    [i \in 1..Len(rows) |-> [rows[i] EXCEPT !.Date = to_datetime(@.v)]]

\* df_combined.to_csv(local_file_path, index=False)
write_raw(t) ==
    [i \in 1..Len(t) |-> [t[i] EXCEPT !.Date = RawDate(@)]]

\* drop_duplicates(subset=['Date'], keep='last')
RECURSIVE drop_duplicates_keep_last(_)
drop_duplicates_keep_last(t) ==
    IF Len(t) = 0 THEN <<>>
    ELSE LET after == drop_duplicates_keep_last(Tail(t))
         IN  IF \E i \in 1..Len(after) : after[i].Date = Head(t).Date
             THEN after
             ELSE <<Head(t)>> \o after

\* A bar as the acquisition holds it: High and Low are the larger and the
\* smaller of Open and Close, no Direction yet.
FetchedBar(date, open, close) ==
    [Date |-> date, Open |-> Num(open), High |-> Num(Max2(open, close)),
     Low |-> Num(Min2(open, close)), Close |-> Num(close), Direction |-> NaN]

\* df_new for an FX asset: today's bar, opening at 1 and closing at value.
fx_frame(day, value) == <<FetchedBar(day, 1, value)>>

\* df_new for a commodity: the series has today's value and then, for the
\* day before, 1; Open is the Close of the row above, and the first row,
\* which has none, is dropped.
commodity_frame(day, value) ==
    LET close == <<value, 1>>
        dates == <<day, day - 1>>
    IN  [i \in 1..(Len(close) - 1) |-> FetchedBar(dates[i + 1], close[i], close[i + 1])]

\* The raw file's rows after a fetch that brought df_new.
combine(existing_rows, df_new) ==
    write_raw(sort_values_by_date(drop_duplicates_keep_last(
        read_raw(existing_rows) \o df_new)))

-----------------------------------------------------------------------------
(* Input tables *)

Bar(date, open, close, direction) ==
    [Date |-> date, Open |-> open, High |-> Max2(open, close),
     Low |-> Min2(open, close), Close |-> close, Direction |-> direction]

\* A bar whose prices agree with its label ("Flat" closes where it opens).
LabelledBar(date, direction) ==
    CASE direction = "UP" -> Bar(date, 1, 2, direction)
      [] direction = "DOWN" -> Bar(date, 2, 1, direction)
      [] OTHER -> Bar(date, 1, 1, direction)

\* Days between two consecutive rows: the next day, over a day, over a
\* weekend (Friday to Monday), Sunday to the next Saturday.
DateGaps == {1, 2, 3, 6}

RECURSIVE DatesFrom(_, _, _)
DatesFrom(start, gaps, n) ==
    IF n = 0 THEN <<>>
    ELSE IF n = 1 THEN <<start>>
    ELSE LET front == DatesFrom(start, gaps, n - 1)
         IN  Append(front, front[n - 1] + gaps[n])

Multipliers == {-DefaultPointMultiplier, -1, 0, DefaultPointMultiplier}

Decimals == 0..MaxDecimals

NoFile == [exists |-> FALSE, rows |-> <<>>]

\* Nothing written under results/, no engine function invoked yet.
NoOutputs ==
    /\ outputs = {}
    /\ calls = {}

\* The acquisition script not involved.
NoAcquisition ==
    /\ backup_settings = [enable_backups |-> FALSE, max_backups_per_asset |-> 0]
    /\ backups = {}
    /\ today = 0
    /\ clock = 0
    /\ raw_mtime = 0
    /\ asset_type = "FX"

\* The cleaning script not involved.
NoCleaning ==
    /\ raw_csv = NoFile
    /\ df_raw = <<>>
    /\ df_clean = <<>>

\* run_analysis about to be called on df, outside the command line.
Fresh ==
    /\ df_analysis = <<>>
    /\ summary_stats = <<>>
    /\ day_of_week_dist = EmptyFrame
    /\ pc = "loaded"
    /\ processed_csv = NoFile
    /\ df_full = <<>>
    /\ start_date = {}
    /\ end_date = {}
    /\ NoCleaning
    /\ NoOutputs
    /\ NoAcquisition

\* Any calendar, any labels; prices follow the labels.
Init ==
    /\ \E n \in 0..MaxRows :
       \E start \in 0..6 :
       \E gaps \in [2..n -> DateGaps] :
       \E labels \in [1..n -> Labels] :
          df = [i \in 1..n |-> LabelledBar(DatesFrom(start, gaps, n)[i], labels[i])]
    /\ point_multiplier = DefaultPointMultiplier
    /\ point_decimals = DefaultPointDecimals
    /\ Fresh

\* Longer tables of consecutive days, any labels.
InitStreaks ==
    /\ \E n \in 0..MaxStreakRows :
       \E labels \in [1..n -> Labels] :
          df = [i \in 1..n |-> LabelledBar(i - 1, labels[i])]
    /\ point_multiplier = DefaultPointMultiplier
    /\ point_decimals = DefaultPointDecimals
    /\ Fresh

\* Any prices under any label, any multiplier.
InitPoints ==
    /\ \E n \in 0..MaxPointRows :
       \E opens \in [1..n -> 1..MaxPrice] :
       \E closes \in [1..n -> 1..MaxPrice] :
       \E labels \in [1..n -> CleanLabels] :
          df = [i \in 1..n |-> Bar(i - 1, opens[i], closes[i], labels[i])]
    /\ point_multiplier \in Multipliers
    /\ point_decimals = DefaultPointDecimals
    /\ Fresh

\* Any configuration, short tables of consecutive days.
InitConfig ==
    /\ \E n \in 0..MaxConfigRows :
       \E labels \in [1..n -> Labels] :
          df = [i \in 1..n |-> LabelledBar(i - 1, labels[i])]
    /\ point_multiplier \in Multipliers
    /\ point_decimals \in Decimals
    /\ Fresh

\* A row of the processed file: the Date as written by to_csv.
CsvRow(date, direction) ==
    [Date |-> strftime(date), Open |-> LabelledBar(date, direction).Open,
     High |-> LabelledBar(date, direction).High,
     Low |-> LabelledBar(date, direction).Low,
     Close |-> LabelledBar(date, direction).Close, Direction |-> direction]

CliWindow == FirstCliDate..(FirstCliDate + MaxCliWindow - 1)

\* --start_date / --end_date: absent, or a date in or next to the window.
CliDateArgs ==
    {{}} \cup {{d} : d \in (FirstCliDate - 1)..(FirstCliDate + MaxCliWindow)}

\* The command line about to run: the processed file is missing, or holds
\* distinct dates in any order and no date arguments are given, or holds
\* ascending dates and any date arguments are given.
InitCli ==
    /\ \/ /\ processed_csv = NoFile
          /\ start_date = {}
          /\ end_date = {}
       \/ /\ \E n \in 0..MaxCliRows :
             \E dates \in [1..n -> CliWindow] :
             \E labels \in [1..n -> CleanLabels] :
                /\ \A i, j \in 1..n : i # j => dates[i] # dates[j]
                /\ processed_csv =
                      [exists |-> TRUE,
                       rows |-> [i \in 1..n |-> CsvRow(dates[i], labels[i])]]
          /\ start_date = {}
          /\ end_date = {}
       \/ /\ \E n \in 0..MaxCliRows :
             \E dates \in [1..n -> CliWindow] :
             \E labels \in [1..n -> {"UP", "DOWN"}] :
                /\ \A i, j \in 1..n : i < j => dates[i] < dates[j]
                /\ processed_csv =
                      [exists |-> TRUE,
                       rows |-> [i \in 1..n |-> CsvRow(dates[i], labels[i])]]
          /\ start_date \in CliDateArgs
          /\ end_date \in CliDateArgs
    /\ df_full = <<>>
    /\ df = <<>>
    /\ point_multiplier = DefaultPointMultiplier
    /\ point_decimals = DefaultPointDecimals
    /\ df_analysis = <<>>
    /\ summary_stats = <<>>
    /\ day_of_week_dist = EmptyFrame
    /\ pc = "start"
    /\ NoCleaning
    /\ NoOutputs
    /\ NoAcquisition

\* A raw row as acquisition writes it: High and Low from Open and Close.
\* Its Direction is NaN: the raw file has no such column.
RawBar(date_cell, open, close) ==
    [Date |-> date_cell, Open |-> Num(open), High |-> Num(Max2(open, close)),
     Low |-> Num(Min2(open, close)), Close |-> Num(close), Direction |-> NaN]

\* Price cells a validation has to deal with.
DefectCells == {Num(0), Num(-1), Missing, Text}

\* Raw rows with at most one defective price cell.
DefectRows(date) ==
    {RawBar(RawDate(date), o, c) : o, c \in 1..MaxRawPrice}
    \cup {[RawBar(RawDate(date), oc[1], oc[2]) EXCEPT ![col] = cell] :
             oc \in (1..MaxRawPrice) \X (1..MaxRawPrice),
             col \in Range(price_cols), cell \in DefectCells}

\* Direction cells of a raw file that has the column already.
RawDirections == CleanLabels \cup {"junk"}

\* Raw rows that come with a Direction, right or wrong.
DirectedRows(date) ==
    {[RawBar(RawDate(date), oc[1], oc[2]) EXCEPT !.Direction = l] :
        oc \in (1..MaxRawPrice) \X (1..MaxRawPrice), l \in RawDirections}

RawDateCells == {BadDate} \cup {RawDate(d) : d \in 0..MaxRawDate}

\* Raw rows with any date cell: an UP bar, a DOWN bar, a bar that opens at 0.
DatedRows ==
    {RawBar(dc, 1, 2) : dc \in RawDateCells}
    \cup {RawBar(dc, 2, 1) : dc \in RawDateCells}
    \cup {RawBar(dc, 0, 1) : dc \in RawDateCells}

\* The cleaning script about to process one asset: the raw file is missing,
\* or holds rows on distinct days with at most one defective price each, or
\* holds rows with any dates (unparseable, repeated, out of order), or holds
\* rows on distinct days that carry a Direction already.
InitClean ==
    /\ \/ raw_csv = NoFile
       \/ \E n \in 0..MaxDefectRows :
             \E rows \in [1..n -> UNION {DefectRows(d) : d \in 0..(MaxDefectRows - 1)}] :
                /\ \A i \in 1..n : rows[i].Date = RawDate(n - i)
                /\ raw_csv = [exists |-> TRUE, rows |-> rows]
       \/ \E n \in 0..MaxRawRows :
             \E rows \in [1..n -> DatedRows] :
                raw_csv = [exists |-> TRUE, rows |-> rows]
       \/ \E n \in 1..MaxDefectRows :
             \E rows \in [1..n -> UNION {DirectedRows(d) : d \in 0..(MaxDefectRows - 1)}] :
                /\ \A i \in 1..n : rows[i].Date = RawDate(n - i)
                /\ raw_csv = [exists |-> TRUE, rows |-> rows]
    /\ df_raw = <<>>
    /\ df_clean = <<>>
    /\ processed_csv = NoFile
    /\ df_full = <<>>
    /\ start_date = {}
    /\ end_date = {}
    /\ df = <<>>
    /\ point_multiplier = DefaultPointMultiplier
    /\ point_decimals = DefaultPointDecimals
    /\ df_analysis = <<>>
    /\ summary_stats = <<>>
    /\ day_of_week_dist = EmptyFrame
    /\ pc = "raw_start"
    /\ NoOutputs
    /\ NoAcquisition

\* filter_data_by_date about to be called: on None, or on a table with any
\* dates in any order, repeated ones too, the rows told apart by their labels.
InitFilter ==
    /\ \/ /\ pc = "none"
          /\ df_full = <<>>
       \/ /\ pc = "full"
          /\ \E n \in 0..MaxCliRows :
             \E dates \in [1..n -> CliWindow] :
                df_full = [i \in 1..n |->
                    LabelledBar(dates[i],
                        directions_order[((i - 1) % Len(directions_order)) + 1])]
    /\ start_date \in CliDateArgs
    /\ end_date \in CliDateArgs
    /\ processed_csv = NoFile
    /\ df = <<>>
    /\ point_multiplier = DefaultPointMultiplier
    /\ point_decimals = DefaultPointDecimals
    /\ df_analysis = <<>>
    /\ summary_stats = <<>>
    /\ day_of_week_dist = EmptyFrame
    /\ NoCleaning
    /\ NoOutputs
    /\ NoAcquisition

\* Asset types: the two the script knows and one it does not.
AssetTypes == {"FX", "COMMODITY", "STOCK"}

\* What the API answers: an error, or a series ending in a value for today.
ApiResponses ==
    {[ok |-> FALSE, value |-> 0]} \cup {[ok |-> TRUE, value |-> v] : v \in 1..MaxFetchPrice}

\* The acquisition about to run for one asset: the backup directory is
\* empty; the raw file is missing or holds one bar of the day before.
InitAcquisition ==
    /\ backup_settings \in [enable_backups : BOOLEAN,
                             max_backups_per_asset : 0..MaxBackups]
    /\ asset_type \in AssetTypes
    /\ backups = {}
    /\ today = 1
    /\ clock = 0
    /\ raw_mtime = 0
    /\ raw_csv \in {NoFile, [exists |-> TRUE, rows |-> <<RawBar(RawDate(0), 1, 1)>>]}
    /\ df_raw = <<>>
    /\ df_clean = <<>>
    /\ processed_csv = NoFile
    /\ df_full = <<>>
    /\ start_date = {}
    /\ end_date = {}
    /\ df = <<>>
    /\ point_multiplier = DefaultPointMultiplier
    /\ point_decimals = DefaultPointDecimals
    /\ df_analysis = <<>>
    /\ summary_stats = <<>>
    /\ day_of_week_dist = EmptyFrame
    /\ pc = "acquire"
    /\ NoOutputs

-----------------------------------------------------------------------------
(* Actions: the caller's two calls, 3_run_analysis_cli.py lines 72-73 *)

RunAnalysis ==
    /\ pc = "loaded"
    /\ LET r == run_analysis(df, point_multiplier, point_decimals)
       IN  /\ df_analysis' = r.table
           /\ summary_stats' = r.stats
           /\ df' = caller_table_after(df, r.table)
    /\ calls' = calls \cup {[fn |-> "run_analysis", rows |-> Len(df)]}
    /\ pc' = "analysed"
    /\ UNCHANGED <<point_multiplier, point_decimals, day_of_week_dist, cliVars,
                   cleanVars, outputs, acqVars>>

CalculateDayOfWeekDistribution ==
    /\ pc = "analysed"
    /\ day_of_week_dist' = calculate_day_of_week_distribution(df_analysis)
    /\ calls' = calls \cup {[fn |-> "calculate_day_of_week_distribution",
                               rows |-> Len(df_analysis)]}
    /\ pc' = "done"
    /\ UNCHANGED <<df, point_multiplier, point_decimals, df_analysis, summary_stats,
                   cliVars, cleanVars, outputs, acqVars>>

Next == RunAnalysis \/ CalculateDayOfWeekDistribution

\* main_cli: df_full = load_asset_data(...); return if it is None.
LoadAssetData ==
    /\ pc = "start"
    /\ IF processed_csv.exists
       THEN /\ df_full' = load_asset_data(processed_csv.rows)
            /\ pc' = "full"
       ELSE /\ df_full' = df_full
            /\ pc' = "exit"
    /\ UNCHANGED <<df, point_multiplier, point_decimals, df_analysis, summary_stats,
                   day_of_week_dist, processed_csv, start_date, end_date, cleanVars,
                   outVars, acqVars>>

\* The emptiness check left out.
after_filter_unchecked(df_period) == "filtered"

\* main_cli: where it goes after the filter, by df_period.empty.
after_filter(df_period) == IF Len(df_period) = 0 THEN "exit" ELSE "filtered"

\* main_cli: df_period = filter_data_by_date(...); return if it is empty.
FilterDataByDate ==
    /\ pc = "full"
    /\ df' = filter_data_by_date(df_full, start_date, end_date)
    /\ pc' = after_filter(df')
    /\ UNCHANGED <<point_multiplier, point_decimals, df_analysis, summary_stats,
                   day_of_week_dist, cliVars, cleanVars, outVars, acqVars>>

\* filter_data_by_date called with None for the table.
FilterNoTable ==
    /\ pc = "none"
    /\ df' = filter_data_by_date_none(start_date, end_date)
    /\ pc' = "exit"
    /\ UNCHANGED <<point_multiplier, point_decimals, df_analysis, summary_stats,
                   day_of_week_dist, cliVars, cleanVars, outVars, acqVars>>

NextFilter == FilterDataByDate \/ FilterNoTable

\* 2_data_cleaning: df_raw = pd.read_csv(input_filepath); the asset is
\* skipped when the file is not found.
ReadRawCsv ==
    /\ pc = "raw_start"
    /\ IF raw_csv.exists
       THEN /\ df_raw' = raw_csv.rows
            /\ pc' = "raw"
       ELSE /\ df_raw' = df_raw
            /\ pc' = "exit"
    /\ UNCHANGED <<engineVars, cliVars, raw_csv, df_clean, outVars, acqVars>>

\* 2_data_cleaning: df_clean = clean_and_validate_data(df_raw, asset_name)
CleanAndValidateData ==
    /\ pc = "raw"
    /\ df_clean' = clean_and_validate_data(df_raw)
    /\ df_raw' = clean_in_place(df_raw)
    /\ pc' = "cleaned"
    /\ UNCHANGED <<engineVars, cliVars, raw_csv, outVars, acqVars>>

\* 2_data_cleaning: the clean table saved unless it is empty.
SaveCleanCsv ==
    /\ pc = "cleaned"
    /\ processed_csv' = IF Len(df_clean) > 0
                        THEN [exists |-> TRUE, rows |-> to_csv(df_clean)]
                        ELSE processed_csv
    /\ pc' = "saved"
    /\ UNCHANGED <<engineVars, cleanVars, df_full, start_date, end_date, outVars,
                   acqVars>>

NextClean ==
    \/ ReadRawCsv
    \/ CleanAndValidateData
    \/ SaveCleanCsv

\* main_cli: setup_output_directory(...) makes results/<asset>/<period>.
SetupOutputDirectory ==
    /\ pc = "filtered"
    /\ outputs' = outputs \cup {"dir"}
    /\ pc' = "loaded"
    /\ UNCHANGED <<engineVars, cliVars, cleanVars, calls, acqVars>>

\* main_cli: save_summary_report(...)
SaveSummaryReport ==
    /\ pc = "done"
    /\ outputs' = outputs \cup {"dir", "report"}
    /\ pc' = "reported"
    /\ UNCHANGED <<engineVars, cliVars, cleanVars, calls, acqVars>>

\* main_cli: save_processed_data_to_csv(...)
SaveProcessedDataToCsv ==
    /\ pc = "reported"
    /\ outputs' = outputs \cup {"dir", "csv"}
    /\ pc' = "csv_saved"
    /\ UNCHANGED <<engineVars, cliVars, cleanVars, calls, acqVars>>

\* main_cli: generate_plots(...)
GeneratePlots ==
    /\ pc = "csv_saved"
    /\ outputs' = outputs \cup {"dir", "plots"}
    /\ pc' = "finished"
    /\ UNCHANGED <<engineVars, cliVars, cleanVars, calls, acqVars>>

\* fetch_and_update_asset: manage_backups first, then the raw file is
\* rewritten unless the asset type is unknown or the API call fails.
FetchAndUpdateAsset ==
    /\ pc = "acquire"
    /\ clock < MaxRuns
    /\ clock' = clock + 1
    /\ backups' \in manage_backups(backups, raw_csv, raw_mtime, backup_settings, today)
    /\ \E response \in ApiResponses :
          IF asset_type \in {"FX", "COMMODITY"} /\ response.ok
          THEN /\ raw_csv' =
                    [exists |-> TRUE,
                     rows |-> combine(raw_csv.rows,
                                 IF asset_type = "FX"
                                 THEN fx_frame(today, response.value)
                                 ELSE commodity_frame(today, response.value))]
               /\ raw_mtime' = clock'
          ELSE UNCHANGED <<raw_csv, raw_mtime>>
    /\ UNCHANGED <<engineVars, pc, cliVars, df_raw, df_clean, outVars,
                   backup_settings, today, asset_type>>

\* The script is run again on a later day.
NextDay ==
    /\ pc = "acquire"
    /\ today < MaxDays
    /\ today' = today + 1
    /\ UNCHANGED <<engineVars, pc, cliVars, cleanVars, outVars,
                   backup_settings, backups, clock, raw_mtime, asset_type>>

NextAcquisition == FetchAndUpdateAsset \/ NextDay

NextCli ==
    \/ LoadAssetData
    \/ FilterDataByDate
    \/ SetupOutputDirectory
    \/ RunAnalysis
    \/ CalculateDayOfWeekDistribution
    \/ SaveSummaryReport
    \/ SaveProcessedDataToCsv
    \/ GeneratePlots

Spec == Init /\ [][Next]_vars
SpecStreaks == InitStreaks /\ [][Next]_vars
SpecPoints == InitPoints /\ [][Next]_vars
SpecConfig == InitConfig /\ [][Next]_vars
SpecCli == InitCli /\ [][NextCli]_vars
SpecClean == InitClean /\ [][NextClean]_vars
SpecFilter == InitFilter /\ [][NextFilter]_vars
SpecAcquisition == InitAcquisition /\ [][NextAcquisition]_vars

-----------------------------------------------------------------------------
(* Properties *)

Analysed == pc \in {"analysed", "done"} /\ Len(df) > 0
Distributed == pc = "done" /\ Len(df) > 0

Rows(t) == 1..Len(t)

\* The length of the longest run of consecutive rows of t labelled label,
\* 0 when no row is.
LongestRun(t, label) ==
    LET runs == {ij \in Rows(t) \X Rows(t) :
                    /\ ij[1] <= ij[2]
                    /\ \A k \in ij[1]..ij[2] : t[k].Direction = label}
    IN  IF runs = {} THEN 0 ELSE SetMax({ij[2] - ij[1] + 1 : ij \in runs})

\* C1: for a non-empty table, each longest_*_streak is the length of the
\* longest run of consecutive rows carrying that direction, 0 when no row
\* carries it.
C1_LongestStreaks ==
    Analysed =>
        /\ summary_stats.longest_up_streak = LongestRun(df, "UP")
        /\ summary_stats.longest_down_streak = LongestRun(df, "DOWN")
        /\ summary_stats.longest_break_even_streak = LongestRun(df, "Break Even")

\* Scenario B: five UP rows, then two DOWN rows, give 5, 2, 0.
C1_Witness ==
    /\ Analysed
    /\ Column(df, "Direction") = <<"UP", "UP", "UP", "UP", "UP", "DOWN", "DOWN">>
    /\ summary_stats.longest_up_streak = 5
    /\ summary_stats.longest_down_streak = 2
    /\ summary_stats.longest_break_even_streak = 0

\* C2: streak_group is 1 on the first row and, on every later row, the
\* previous row's value plus 1 if the Direction changed and plus 0 if not;
\* so it never decreases.
C2_StreakGroupSteps ==
    Analysed =>
        /\ df_analysis[1].streak_group = 1
        /\ \A i \in 2..Len(df_analysis) :
              /\ df_analysis[i].streak_group =
                    df_analysis[i - 1].streak_group +
                    (IF df_analysis[i].Direction # df_analysis[i - 1].Direction
                     THEN 1 ELSE 0)
              /\ df_analysis[i].streak_group >= df_analysis[i - 1].streak_group

C2_Witness ==
    /\ Analysed
    /\ Column(df_analysis, "Direction") = <<"UP", "UP", "DOWN", "DOWN", "UP">>
    /\ Column(df_analysis, "streak_group") = <<1, 1, 2, 2, 3>>

\* C3: for a non-empty table, total_days is the number of input rows, the
\* three counts are non-negative and add up to total_days.
C3_CountsPartition ==
    Analysed =>
        /\ summary_stats.total_days = Len(df)
        /\ summary_stats.up_days >= 0
        /\ summary_stats.down_days >= 0
        /\ summary_stats.break_even_days >= 0
        /\ summary_stats.up_days + summary_stats.down_days
              + summary_stats.break_even_days = summary_stats.total_days

C3_Witness ==
    /\ Analysed
    /\ summary_stats.total_days = 3
    /\ summary_stats.up_days = 1
    /\ summary_stats.down_days = 1
    /\ summary_stats.break_even_days = 1

InputColumns == {"Date", "Open", "High", "Low", "Close", "Direction"}

\* C4: the enriched table has one row per input row, in input order, with
\* every input column unchanged; ascending dates stay ascending.
C4_RowsPreserved ==
    Analysed =>
        /\ Len(df_analysis) = Len(df)
        /\ \A i \in Rows(df) : \A c \in InputColumns : df_analysis[i][c] = df[i][c]
        /\ \A i \in 2..Len(df_analysis) :
              df_analysis[i - 1].Date < df_analysis[i].Date

C4_Witness ==
    /\ Analysed
    /\ Len(df_analysis) = 3
    /\ df_analysis[1].Day_Name = "Saturday"
    /\ df_analysis[1].Date < df_analysis[2].Date
    /\ df_analysis[2].Date < df_analysis[3].Date

SumCells(f) ==
    SumSeq([i \in 1..Len(f.index) |->
        SumSeq([j \in 1..Len(f.columns) |-> f.cells[f.index[i]][f.columns[j]]])])

Weekdays == {"Monday", "Tuesday", "Wednesday", "Thursday", "Friday"}

WeekdayRows(t) == {i \in Rows(t) : t[i].Day_Name \in Weekdays}

\* C5 as stated: the cells of the day-of-week table add up to the number of
\* rows that fall on Monday..Friday.
C5_CellsSumToWeekdayRows ==
    Distributed =>
        /\ SumCells(day_of_week_dist) = Cardinality(WeekdayRows(df_analysis))
        /\ SumCells(day_of_week_dist) <= summary_stats.total_days

\* C5, amended: the cells add up to the number of rows that fall on
\* Monday..Friday and are labelled UP, DOWN or Break Even; this is at most
\* the number of weekday rows, which is at most total_days.
C5_CellsSumToLabelledWeekdayRows ==
    Distributed =>
        /\ SumCells(day_of_week_dist) =
              Cardinality({i \in WeekdayRows(df_analysis) :
                              df_analysis[i].Direction \in CleanLabels})
        /\ SumCells(day_of_week_dist) <= Cardinality(WeekdayRows(df_analysis))
        /\ Cardinality(WeekdayRows(df_analysis)) <= summary_stats.total_days

C5_Witness ==
    /\ Distributed
    /\ Len(df_analysis) = 3
    /\ Cardinality(WeekdayRows(df_analysis)) = 2
    /\ \A i \in Rows(df_analysis) : df_analysis[i].Direction \in CleanLabels
    /\ SumCells(day_of_week_dist) = 2

\* C6: for a non-empty table, the day-of-week table has the rows Monday to
\* Friday and the columns UP, DOWN, Break Even, in these orders, and each
\* cell is the number of rows with that weekday and that direction (0 when
\* there is none).
C6_FixedShapeAndCounts ==
    Distributed =>
        /\ day_of_week_dist.index =
              <<"Monday", "Tuesday", "Wednesday", "Thursday", "Friday">>
        /\ day_of_week_dist.columns = <<"UP", "DOWN", "Break Even">>
        /\ DOMAIN day_of_week_dist.cells = Weekdays
        /\ \A d \in Weekdays :
              /\ DOMAIN day_of_week_dist.cells[d] = CleanLabels
              /\ \A c \in CleanLabels :
                    /\ day_of_week_dist.cells[d][c] >= 0
                    /\ day_of_week_dist.cells[d][c] =
                          Cardinality({i \in Rows(df) :
                              /\ DayNames[(df[i].Date % 7) + 1] = d
                              /\ df[i].Direction = c})

\* A weekday with no row at all, beside a weekday with rows.
C6_Witness ==
    /\ Distributed
    /\ \A c \in CleanLabels : day_of_week_dist.cells["Wednesday"][c] = 0
    /\ day_of_week_dist.cells["Monday"]["UP"] = 1
    /\ day_of_week_dist.cells["Monday"]["DOWN"] = 0
    /\ day_of_week_dist.cells["Friday"]["DOWN"] = 1

OnWeekend(r) == r.Date % 7 \in {5, 6}

\* C7: weekend rows are left out of the day-of-week table and counted in
\* the summary: the cells of a weekday count its rows only, and when every
\* row falls on a weekend the table is all zero while the summary counts
\* every row.
C7_WeekendRowsDropped ==
    Distributed =>
        /\ summary_stats.total_days = Len(df)
        /\ summary_stats.up_days =
              Cardinality({i \in Rows(df) : df[i].Direction = "UP"})
        /\ summary_stats.down_days =
              Cardinality({i \in Rows(df) : df[i].Direction = "DOWN"})
        /\ summary_stats.break_even_days =
              Cardinality({i \in Rows(df) : df[i].Direction \notin {"UP", "DOWN"}})
        /\ SumCells(day_of_week_dist) <=
              Cardinality({i \in Rows(df) : ~OnWeekend(df[i])})
        /\ (\A i \in Rows(df) : OnWeekend(df[i])) =>
              /\ Len(day_of_week_dist.index) = 5
              /\ \A d \in Range(day_of_week_dist.index) :
                 \A c \in Range(day_of_week_dist.columns) :
                    day_of_week_dist.cells[d][c] = 0

\* Saturday, Sunday and the next Saturday.
C7_Witness ==
    /\ Distributed
    /\ Len(df) = 3
    /\ \A i \in Rows(df) : OnWeekend(df[i])
    /\ summary_stats.total_days = 3
    /\ summary_stats.up_days = 2
    /\ SumCells(day_of_week_dist) = 0

DownRows(t) == {i \in Rows(t) : t[i].Direction = "DOWN"}

RECURSIVE SumOver(_, _)
SumOver(S, f) ==
    IF S = {} THEN 0
    ELSE LET x == CHOOSE y \in S : TRUE IN f[x] + SumOver(S \ {x}, f)

ScaledPoints(t, pm) == [i \in Rows(t) |-> (t[i].Close - t[i].Open) * pm]
ScaledMagnitudes(t, pm) == [i \in Rows(t) |-> Abs((t[i].Close - t[i].Open) * pm)]

\* C8 as stated: total_down_points_display is the absolute value of the sum
\* of Points_Display over the DOWN rows.
C8_DownIsAbsOfSum ==
    Analysed =>
        summary_stats.total_down_points_display =
            Abs(SumOver(DownRows(df), ScaledPoints(df, point_multiplier)))

\* C8, amended: total_down_points_display is the sum of the absolute values
\* of Points_Display over the DOWN rows; it is the absolute value of their
\* sum when the DOWN rows' points all have one sign.
C8_DownIsSumOfAbs ==
    Analysed =>
        /\ summary_stats.total_down_points_display =
              SumOver(DownRows(df), ScaledMagnitudes(df, point_multiplier))
        /\ (\/ \A i \in DownRows(df) : df[i].Close <= df[i].Open
            \/ \A i \in DownRows(df) : df[i].Close >= df[i].Open) =>
              summary_stats.total_down_points_display =
                  Abs(SumOver(DownRows(df), ScaledPoints(df, point_multiplier)))

\* Two DOWN rows, one closing lower and one closing higher.
C8_Witness ==
    /\ Analysed
    /\ Len(df) = 2
    /\ DownRows(df) = {1, 2}
    /\ df[1].Close < df[1].Open
    /\ df[2].Close > df[2].Open
    /\ point_multiplier = DefaultPointMultiplier
    /\ summary_stats.total_down_points_display > 0

LabelsAgree(t) ==
    \A i \in Rows(t) :
        /\ t[i].Direction = "UP" <=> t[i].Close > t[i].Open
        /\ t[i].Direction = "DOWN" <=> t[i].Close < t[i].Open
        /\ t[i].Direction = "Break Even" <=> t[i].Close = t[i].Open

\* C9: when the labels agree with the sign of close minus open, for any
\* integer point_multiplier, net_points_display is total_up_points_display
\* minus total_down_points_display.
C9_NetIsUpMinusDown ==
    (Analysed /\ LabelsAgree(df)) =>
        summary_stats.net_points_display =
            summary_stats.total_up_points_display
                - summary_stats.total_down_points_display

\* C10: for a non-empty table, each percentage lies between 0 and 100 and
\* the three add up to 100 (as exact fractions over total_days).
C10_PercentagesPartition ==
    Analysed =>
        LET n == summary_stats.total_days
            P == <<summary_stats.up_pct, summary_stats.down_pct,
                   summary_stats.break_even_pct>>
        IN  /\ \A k \in 1..3 :
                  /\ P[k].den = n
                  /\ 0 <= P[k].num
                  /\ P[k].num <= 100 * P[k].den
            /\ P[1].num + P[2].num + P[3].num = 100 * n
            /\ P[1].num = 100 * summary_stats.up_days
            /\ P[2].num = 100 * summary_stats.down_days
            /\ P[3].num = 100 * summary_stats.break_even_days

\* One UP row, two rows that are neither UP nor DOWN: 100/3 and 200/3.
C10_Witness ==
    /\ Analysed
    /\ summary_stats.up_pct = [num |-> 100, den |-> 3]
    /\ summary_stats.down_pct = [num |-> 0, den |-> 3]
    /\ summary_stats.break_even_pct = [num |-> 200, den |-> 3]

Returned == pc \in {"analysed", "done"}

\* C11: for a table with zero rows run_analysis returns the no-data result,
\* an empty table and an empty statistics record, and computes nothing; for
\* any other table it returns rows and statistics, so the no-data result
\* tells the two apart.
C11_EmptyInputNoData ==
    Returned =>
        /\ Len(df) = 0 => (df_analysis = <<>> /\ DOMAIN summary_stats = {})
        /\ Len(df) > 0 => (Len(df_analysis) > 0 /\ DOMAIN summary_stats # {})

C11_Witness ==
    /\ pc = "analysed"
    /\ Len(df) = 0
    /\ df_analysis = <<>>
    /\ DOMAIN summary_stats = {}

PctKeys == {"up_pct", "down_pct", "break_even_pct"}

\* C12 as stated: for a table with zero rows the statistics hold up_pct,
\* down_pct and break_even_pct, each 0.
C12_ZeroRowsZeroPercentages ==
    (Returned /\ Len(df) = 0) =>
        /\ PctKeys \subseteq DOMAIN summary_stats
        /\ \A k \in PctKeys : summary_stats[k].num = 0

\* C12, amended: run_analysis never divides by zero, because for a table
\* with zero rows it returns the empty statistics record, which holds no
\* percentage at all; statistics that hold percentages have
\* total_days >= 1 as their denominator.
C12_NoPercentagesWithoutRows ==
    Returned =>
        /\ Len(df) = 0 => DOMAIN summary_stats \cap (PctKeys \cup {"total_days"}) = {}
        /\ \A k \in PctKeys \cap DOMAIN summary_stats :
              /\ summary_stats.total_days >= 1
              /\ summary_stats[k].den = summary_stats.total_days

C12_Witness ==
    /\ pc = "done"
    /\ Len(df) = 0
    /\ DOMAIN summary_stats = {}
    /\ day_of_week_dist = EmptyFrame

\* C13: neither call changes the table it is given: the caller's df keeps
\* its rows, columns and values through run_analysis, and df_analysis
\* keeps its through calculate_day_of_week_distribution.
C13_CallerTablesUntouched ==
    [][/\ df' = df
       /\ pc = "analysed" => df_analysis' = df_analysis]_vars

C13_Witness ==
    /\ pc = "done"
    /\ Len(df) = 3
    /\ \A i \in 1..Len(df) : DOMAIN df[i] = InputColumns
    /\ \A i \in 1..Len(df_analysis) :
          {"Day_Name", "Raw_Points", "Points_Display", "streak_group"}
              \subseteq DOMAIN df_analysis[i]

\* C14: on every row of the enriched table Raw_Points is Close minus Open
\* of that row and Points_Display is Raw_Points times point_multiplier.
C14_PointsPerRow ==
    Analysed =>
        \A i \in 1..Len(df_analysis) :
            /\ df_analysis[i].Raw_Points = df[i].Close - df[i].Open
            /\ df_analysis[i].Points_Display =
                  df_analysis[i].Raw_Points * point_multiplier

\* A row closing higher and a row closing lower, multiplier 10.
C14_Witness ==
    /\ Analysed
    /\ point_multiplier = DefaultPointMultiplier
    /\ Column(df, "Open") = <<1, 3>>
    /\ Column(df, "Close") = <<3, 2>>
    /\ Column(df_analysis, "Raw_Points") = <<2, -1>>
    /\ Column(df_analysis, "Points_Display") = <<20, -10>>

NeitherUpNorDown(t) == {i \in 1..Len(t) : t[i].Direction \notin {"UP", "DOWN"}}

\* C16: break_even_days is total_days - up_days - down_days, so it counts
\* every row whose Direction is anything but UP or DOWN, an unrecognised
\* label included, and break_even_pct is that count over total_days.
C16_BreakEvenAbsorbsOtherLabels ==
    Analysed =>
        /\ summary_stats.break_even_days =
              summary_stats.total_days - summary_stats.up_days
                  - summary_stats.down_days
        /\ summary_stats.break_even_days = Cardinality(NeitherUpNorDown(df))
        /\ summary_stats.break_even_pct =
              [num |-> 100 * Cardinality(NeitherUpNorDown(df)), den |-> Len(df)]

\* One Break Even row and two rows with the unrecognised label.
C16_Witness ==
    /\ Analysed
    /\ Cardinality({i \in 1..Len(df) : df[i].Direction = "Flat"}) = 2
    /\ Cardinality({i \in 1..Len(df) : df[i].Direction = "Break Even"}) = 1
    /\ summary_stats.break_even_days = 3

\* C17: point_decimals is only echoed: run with any other point_decimals,
\* the same table and the same point_multiplier give the same enriched
\* table and the same statistics but for the point_decimals field; both
\* configuration values come back as passed.
C17_DecimalsOnlyEchoed ==
    Analysed =>
        /\ summary_stats.point_multiplier = point_multiplier
        /\ summary_stats.point_decimals = point_decimals
        /\ \A d \in Decimals :
              LET r == run_analysis(df, point_multiplier, d)
              IN  /\ r.table = df_analysis
                  /\ DOMAIN r.stats = DOMAIN summary_stats
                  /\ \A k \in DOMAIN summary_stats \ {"point_decimals"} :
                        r.stats[k] = summary_stats[k]
                  /\ r.stats.point_decimals = d

C17_Witness ==
    /\ Analysed
    /\ point_decimals = 0
    /\ point_multiplier = -1
    /\ Len(df) = 2
    /\ summary_stats.point_decimals = 0
    /\ summary_stats.total_up_points_display = -1
    /\ run_analysis(df, point_multiplier, 3).stats.total_up_points_display = -1

\* C18: for a table with zero rows calculate_day_of_week_distribution
\* returns the empty table, with no weekday row and no direction column;
\* for any other table it returns five rows and three columns, all-zero
\* when no row falls on a weekday.
C18_EmptyDistribution ==
    pc = "done" =>
        /\ Len(df_analysis) = 0 =>
              /\ day_of_week_dist.index = <<>>
              /\ day_of_week_dist.columns = <<>>
        /\ Len(df_analysis) > 0 =>
              /\ Len(day_of_week_dist.index) = 5
              /\ Len(day_of_week_dist.columns) = 3

C18_Witness ==
    /\ pc = "done"
    /\ Len(df) = 0
    /\ Len(df_analysis) = 0
    /\ day_of_week_dist.index = <<>>
    /\ day_of_week_dist.columns = <<>>

\* The case C18 tells the empty table from: rows, none on a weekday.
C18_AllZeroRows ==
    /\ pc = "done"
    /\ Len(df_analysis) = 2
    /\ \A i \in 1..Len(df) : OnWeekend(df[i])
    /\ Len(day_of_week_dist.index) = 5
    /\ SumCells(day_of_week_dist) = 0

\* 'YYYY-MM-DD' strings compared as strings: year, then month, then day.
DateStrLeq(a, b) ==
    \/ a[1] < b[1]
    \/ a[1] = b[1] /\ a[2] < b[2]
    \/ a[1] = b[1] /\ a[2] = b[2] /\ a[3] <= b[3]

\* C15: actual_start_date and actual_end_date are the least and the
\* greatest Date of the analysed rows, each the date of a row that is
\* there; for a table filtered to [start, end] they lie in that order
\* between the bounds that were given.
C15_ActualDatesWithinRequest ==
    Analysed =>
        /\ \E i \in 1..Len(df_analysis) :
              strftime(df_analysis[i].Date) = summary_stats.actual_start_date
        /\ \E i \in 1..Len(df_analysis) :
              strftime(df_analysis[i].Date) = summary_stats.actual_end_date
        /\ \A i \in 1..Len(df_analysis) :
              /\ DateStrLeq(summary_stats.actual_start_date,
                            strftime(df_analysis[i].Date))
              /\ DateStrLeq(strftime(df_analysis[i].Date),
                            summary_stats.actual_end_date)
        /\ DateStrLeq(summary_stats.actual_start_date, summary_stats.actual_end_date)
        /\ \A d \in start_date :
              DateStrLeq(strftime(d), summary_stats.actual_start_date)
        /\ \A d \in end_date :
              DateStrLeq(summary_stats.actual_end_date, strftime(d))

\* Asked for 2024-01-29 to 2024-02-01, rows on 2024-01-31 and 2024-02-02:
\* only the first is analysed.
C15_Witness ==
    /\ Analysed
    /\ start_date = {FirstCliDate - 1}
    /\ end_date = {FirstCliDate + 2}
    /\ Len(df_full) = 2
    /\ Len(df) = 1
    /\ summary_stats.actual_start_date = strftime(FirstCliDate + 1)
    /\ summary_stats.actual_end_date = strftime(FirstCliDate + 1)

Reorderings(t) ==
    {[i \in 1..Len(t) |-> t[f[i]]] : f \in Permutations(1..Len(t))}

LongestStreaks(stats) ==
    <<stats.longest_up_streak, stats.longest_down_streak,
      stats.longest_break_even_streak>>

LongestRuns(t) ==
    <<LongestRun(t, "UP"), LongestRun(t, "DOWN"), LongestRun(t, "Break Even")>>

\* C19 as stated: run_analysis gives the same three longest streaks for
\* the same bars in any row order.
C19_StreaksIgnoreRowOrder ==
    Analysed =>
        \A t \in Reorderings(df) :
            LongestStreaks(run_analysis(t, point_multiplier, point_decimals).stats)
                = LongestStreaks(summary_stats)

\* The rows of the file that the date arguments keep, ascending by Date.
BarsInDateOrder ==
    LET kept == SelectSeq(read_csv(processed_csv.rows), LAMBDA r :
                    /\ \A d \in start_date : d <= r.Date
                    /\ \A d \in end_date : r.Date <= d)
    IN  CHOOSE t \in Reorderings(kept) :
            \A i \in 2..Len(t) : t[i - 1].Date < t[i].Date

\* C19, amended: run_analysis takes runs of consecutive rows in the order
\* of the rows it is given; load_asset_data sorts by Date, so in a command
\* line run the streaks are those of date order, whatever the order of the
\* rows in the file.
C19_StreaksFollowRowOrder ==
    Analysed =>
        /\ \A t \in Reorderings(df) :
              LongestStreaks(run_analysis(t, point_multiplier, point_decimals).stats)
                  = LongestRuns(t)
        /\ LongestStreaks(summary_stats) = LongestRuns(BarsInDateOrder)

\* A file with the rows of Feb 1, Jan 30, Jan 31: UP, UP, DOWN in the file,
\* UP, DOWN, UP by date.
C19_Witness ==
    /\ Analysed
    /\ Len(processed_csv.rows) = 3
    /\ [i \in 1..3 |-> processed_csv.rows[i].Date] =
          <<strftime(FirstCliDate + 2), strftime(FirstCliDate),
            strftime(FirstCliDate + 1)>>
    /\ [i \in 1..3 |-> processed_csv.rows[i].Direction] = <<"UP", "UP", "DOWN">>
    /\ Column(df, "Direction") = <<"UP", "DOWN", "UP">>
    /\ LongestStreaks(summary_stats) = <<1, 1, 0>>

Cleaned == pc \in {"cleaned", "saved"}

\* C20 as stated: every Open, High, Low and Close of a cleaned table is a
\* number greater than zero.
C20_CleanPricesPositive ==
    Cleaned =>
        \A i \in Rows(df_clean) : \A j \in 1..Len(price_cols) :
            /\ ~isna(df_clean[i][price_cols[j]])
            /\ int(df_clean[i][price_cols[j]]) > 0

\* C20, amended: every Open, High, Low and Close of a cleaned table is a
\* number and is not zero, and a cleaned file holds the same; the sign is
\* not checked, a raw row with a negative price is kept.
C20_CleanPricesNonZero ==
    /\ Cleaned =>
          \A i \in Rows(df_clean) : \A j \in 1..Len(price_cols) :
              /\ ~isna(df_clean[i][price_cols[j]])
              /\ int(df_clean[i][price_cols[j]]) # 0
    /\ pc = "saved" =>
          \A i \in Rows(processed_csv.rows) : \A j \in 1..Len(price_cols) :
              processed_csv.rows[i][price_cols[j]] # 0
    /\ Cleaned =>
          \A i \in Rows(raw_csv.rows) :
              (/\ raw_csv.rows[i].Date.k = "ymd"
               /\ \A k \in 1..(i - 1) : raw_csv.rows[k].Date # raw_csv.rows[i].Date
               /\ \A j \in 1..Len(price_cols) :
                     /\ raw_csv.rows[i][price_cols[j]].k = "num"
                     /\ raw_csv.rows[i][price_cols[j]].v # 0)
              => \E c \in Rows(df_clean) :
                    /\ df_clean[c].Date = to_datetime(raw_csv.rows[i].Date.v)
                    /\ \A j \in 1..Len(price_cols) :
                          df_clean[c][price_cols[j]]
                              = {raw_csv.rows[i][price_cols[j]].v}

\* A raw row that opens at -1 and closes at 2 is in the cleaned table and in
\* the saved file.
C20_Witness ==
    /\ pc = "saved"
    /\ Len(raw_csv.rows) = 1
    /\ raw_csv.rows[1].Open = Num(-1)
    /\ Len(df_clean) = 1
    /\ df_clean[1].Open = {-1}
    /\ df_clean[1].Close = {2}
    /\ df_clean[1].Direction = "UP"
    /\ processed_csv.exists
    /\ processed_csv.rows[1].Open = -1

\* The dates a raw file holds, parsed.
RawDates == UNION {to_datetime_coerce(raw_csv.rows[i].Date) : i \in Rows(raw_csv.rows)}

\* C21: the Date values of a cleaned table are strictly ascending, so it is
\* sorted and no date is there twice, and each is the date of a raw row
\* whose date could be parsed.
C21_CleanDatesStrictlyAscending ==
    Cleaned =>
        /\ \A i \in 2..Len(df_clean) : df_clean[i - 1].Date < df_clean[i].Date
        /\ \A i \in Rows(df_clean) : df_clean[i].Date \in RawDates

\* A raw file with the dates Jan 2, Jan 1, Jan 2 and good prices gives a
\* table with Jan 1, Jan 2.
C21_Witness ==
    /\ Cleaned
    /\ Len(raw_csv.rows) = 3
    /\ [i \in 1..3 |-> raw_csv.rows[i].Date] = <<RawDate(1), RawDate(0), RawDate(1)>>
    /\ Column(df_clean, "Date") = <<0, 1>>

\* C22: every row of a cleaned table is labelled UP exactly when its Close
\* is above its Open, DOWN exactly when below, Break Even exactly when they
\* are equal, whatever Direction the raw row came with.
C22_DirectionFromPrices ==
    Cleaned =>
        \A i \in Rows(df_clean) :
            /\ df_clean[i].Direction \in CleanLabels
            /\ df_clean[i].Direction = "UP"
                  <=> int(df_clean[i].Close) > int(df_clean[i].Open)
            /\ df_clean[i].Direction = "DOWN"
                  <=> int(df_clean[i].Close) < int(df_clean[i].Open)
            /\ df_clean[i].Direction = "Break Even"
                  <=> int(df_clean[i].Close) = int(df_clean[i].Open)

\* A raw row labelled UP that opens at 2 and closes at 1 comes out DOWN.
C22_Witness ==
    /\ Cleaned
    /\ Len(raw_csv.rows) = 1
    /\ raw_csv.rows[1].Direction = "UP"
    /\ Len(df_clean) = 1
    /\ df_clean[1].Open = {2}
    /\ df_clean[1].Close = {1}
    /\ df_clean[1].Direction = "DOWN"

\* The first raw row that carries the date d.
FirstRawRow(d) ==
    raw_csv.rows[SetMin({i \in Rows(raw_csv.rows) :
                            to_datetime_coerce(raw_csv.rows[i].Date) = {d}})]

ValidPrices(r) ==
    \A j \in 1..Len(price_cols) :
        r[price_cols[j]].k = "num" /\ r[price_cols[j]].v # 0

\* C28: a date is in the cleaned table exactly when the first raw row of
\* that date has four numeric, non-zero prices, and the row kept is that
\* first row; a later row of the same date never stands in for it.
C28_FirstRowOfDateDecides ==
    Cleaned =>
        \A d \in RawDates :
            /\ d \in Range(Column(df_clean, "Date")) <=> ValidPrices(FirstRawRow(d))
            /\ \A i \in Rows(df_clean) :
                  df_clean[i].Date = d =>
                      \A j \in 1..Len(price_cols) :
                          df_clean[i][price_cols[j]]
                              = {FirstRawRow(d)[price_cols[j]].v}

\* Jan 1 first with Open 0, then with good prices, and Jan 2 with good
\* prices: only Jan 2 is kept.
C28_Witness ==
    /\ Cleaned
    /\ Len(raw_csv.rows) = 3
    /\ [i \in 1..3 |-> raw_csv.rows[i].Date] = <<RawDate(0), RawDate(0), RawDate(1)>>
    /\ raw_csv.rows[1].Open = Num(0)
    /\ ValidPrices(raw_csv.rows[2])
    /\ ValidPrices(raw_csv.rows[3])
    /\ Column(df_clean, "Date") = <<1>>

\* The table carries only the labels the cleaning stage produces.
CleanInput == \A i \in Rows(df) : df[i].Direction \in CleanLabels

\* C26: for a non-empty table labelled UP, DOWN or Break Even only, the
\* longest streak of a direction is at most the number of its days, and is
\* at least 1 exactly when there is such a day.
C26_StreakWithinDays ==
    (Analysed /\ CleanInput) =>
        /\ summary_stats.longest_up_streak <= summary_stats.up_days
        /\ summary_stats.longest_down_streak <= summary_stats.down_days
        /\ summary_stats.longest_break_even_streak <= summary_stats.break_even_days
        /\ summary_stats.longest_up_streak >= 1 <=> summary_stats.up_days >= 1
        /\ summary_stats.longest_down_streak >= 1 <=> summary_stats.down_days >= 1
        /\ summary_stats.longest_break_even_streak >= 1
              <=> summary_stats.break_even_days >= 1

\* Break Even, UP, UP, UP, Break Even: two break-even days, streak 1; three
\* UP days, streak 3; no DOWN day, streak 0.
C26_Witness ==
    /\ Analysed
    /\ Column(df, "Direction") = <<"Break Even", "UP", "UP", "UP", "Break Even">>
    /\ summary_stats.break_even_days = 2
    /\ summary_stats.longest_break_even_streak = 1
    /\ summary_stats.longest_up_streak = 3
    /\ summary_stats.down_days = 0
    /\ summary_stats.longest_down_streak = 0

\* The sum of one column of the day-of-week table.
ColumnSum(f, c) == SumSeq([i \in 1..Len(f.index) |-> f.cells[f.index[i]][c]])

\* C27: for a non-empty table labelled UP, DOWN or Break Even only, each
\* column of the day-of-week table sums to at most the summary count of
\* its direction, and all three sums equal the counts exactly when no row
\* falls on a Saturday or Sunday.
C27_ColumnsWithinCounts ==
    (Distributed /\ CleanInput) =>
        /\ ColumnSum(day_of_week_dist, "UP") <= summary_stats.up_days
        /\ ColumnSum(day_of_week_dist, "DOWN") <= summary_stats.down_days
        /\ ColumnSum(day_of_week_dist, "Break Even") <= summary_stats.break_even_days
        /\ (/\ ColumnSum(day_of_week_dist, "UP") = summary_stats.up_days
            /\ ColumnSum(day_of_week_dist, "DOWN") = summary_stats.down_days
            /\ ColumnSum(day_of_week_dist, "Break Even") = summary_stats.break_even_days)
           <=> \A i \in Rows(df) : ~OnWeekend(df[i])

\* A Friday UP, a Saturday UP and a Monday DOWN: the UP column sums to 1 of
\* 2 UP days, the DOWN column to 1 of 1.
C27_Witness ==
    /\ Distributed
    /\ Column(df, "Direction") = <<"UP", "UP", "DOWN">>
    /\ Column(df, "Date") = <<4, 5, 7>>
    /\ ColumnSum(day_of_week_dist, "UP") = 1
    /\ summary_stats.up_days = 2
    /\ ColumnSum(day_of_week_dist, "DOWN") = 1
    /\ summary_stats.down_days = 1

\* Two Mondays UP a week apart: the UP column holds both.
C27_SameCellTwice ==
    /\ Distributed
    /\ Column(df, "Direction") = <<"UP", "DOWN", "UP">>
    /\ Column(df, "Date") = <<0, 1, 7>>
    /\ day_of_week_dist.cells["Monday"]["UP"] = 2

\* The k-th row number of a set of row numbers.
Nth(S, k) == CHOOSE i \in S : Cardinality({j \in S : j < i}) = k - 1

\* C25: filter_data_by_date returns exactly the rows with start <= Date <=
\* end, both bounds included, in their original order, an absent bound
\* standing for the table's own least or greatest date; None or an empty
\* table gives an empty table; the table given is left as it was.
C25_FilterKeepsRowsInRange ==
    [][/\ pc = "none" => df' = <<>>
       /\ pc = "full" =>
            /\ df_full' = df_full
            /\ Len(df_full) = 0 => df' = <<>>
            /\ Len(df_full) > 0 =>
                 LET dates == Range(Column(df_full, "Date"))
                     lo == IF start_date # {} THEN int(start_date) ELSE SetMin(dates)
                     hi == IF end_date # {} THEN int(end_date) ELSE SetMax(dates)
                     kept == {i \in Rows(df_full) :
                                 lo <= df_full[i].Date /\ df_full[i].Date <= hi}
                 IN  /\ Len(df') = Cardinality(kept)
                     /\ \A k \in 1..Len(df') : df'[k] = df_full[Nth(kept, k)]]_vars

\* From rows dated Feb 1, Jan 30, Jan 31, asked for Jan 31 to Feb 1: the
\* rows of Feb 1 and Jan 31, in that order.
C25_Witness ==
    /\ pc = "filtered"
    /\ Column(df_full, "Date") = <<FirstCliDate + 2, FirstCliDate, FirstCliDate + 1>>
    /\ start_date = {FirstCliDate + 1}
    /\ end_date = {FirstCliDate + 2}
    /\ df = <<df_full[1], df_full[3]>>

\* With no end given, the rows from the start to the last date of the table.
C25_DefaultEnd ==
    /\ pc = "filtered"
    /\ Column(df_full, "Date") = <<FirstCliDate + 2, FirstCliDate, FirstCliDate + 1>>
    /\ start_date = {FirstCliDate + 1}
    /\ end_date = {}
    /\ df = <<df_full[1], df_full[3]>>

\* The run ended early: the processed file could not be loaded, or the
\* filter left no row.
EndedEarly ==
    \/ ~processed_csv.exists
    \/ pc \notin {"start", "full"} /\ Len(df) = 0

\* C23: in a command-line run that fails to load or filters down to no row,
\* no engine function is invoked and nothing is created under results/;
\* whenever a report, a CSV or a plot exists, run_analysis was invoked on a
\* table with rows, and so was every engine call that was made.
C23_NoOutputWithoutData ==
    /\ EndedEarly => calls = {} /\ outputs = {}
    /\ pc = "exit" => calls = {} /\ outputs = {}
    /\ outputs \cap {"report", "csv", "plots"} # {} =>
          \E c \in calls : c.fn = "run_analysis" /\ c.rows > 0
    /\ \A c \in calls : c.rows > 0

\* A run asked for a window that holds no row of a file with rows: it ends
\* with nothing invoked and nothing written.
C23_Witness ==
    /\ pc = "exit"
    /\ processed_csv.exists
    /\ Len(df_full) = 2
    /\ start_date = {FirstCliDate + MaxCliWindow}
    /\ Len(df) = 0
    /\ calls = {}
    /\ outputs = {}

\* A run that went through: everything written, both functions invoked.
C23_Finished ==
    /\ pc = "finished"
    /\ outputs = {"dir", "report", "csv", "plots"}
    /\ calls = {[fn |-> "run_analysis", rows |-> 2],
                [fn |-> "calculate_day_of_week_distribution", rows |-> 2]}

\* C24 as stated: with backups enabled, whenever a fetch rewrites a raw
\* file that existed, a backup holding the rows the raw file had just
\* before is in the backup directory afterwards.
C24_BackupBeforeOverwrite ==
    [][(/\ backup_settings.enable_backups
        /\ raw_csv.exists
        /\ raw_mtime' # raw_mtime)
       => \E b \in backups' : b.rows = raw_csv.rows]_vars

\* The same, for the first rewrite of a calendar day with room for a backup:
\* no backup of today exists yet and max_backups_per_asset is at least 1.
C24_BackupBeforeFirstOverwriteOfDay ==
    [][(/\ backup_settings.enable_backups
        /\ backup_settings.max_backups_per_asset >= 1
        /\ raw_csv.exists
        /\ \A b \in backups : b.day # today
        /\ raw_mtime' # raw_mtime)
       => \E b \in backups' : b.day = today /\ b.rows = raw_csv.rows]_vars

\* The raw file was rewritten twice on one day and the day's backup still
\* holds the rows from before the first rewrite.
C24_StaleBackup ==
    /\ backup_settings = [enable_backups |-> TRUE, max_backups_per_asset |-> 2]
    /\ asset_type = "FX"
    /\ today = 1
    /\ raw_mtime = 2
    /\ backups = {[day |-> 1, rows |-> <<RawBar(RawDate(0), 1, 1)>>, mtime |-> 0]}
    /\ raw_csv.rows = <<RawBar(RawDate(0), 1, 1), RawBar(RawDate(1), 1, 1)>>

\* C29: from an empty backup directory, with backups enabled and
\* max_backups_per_asset >= 1, there are never more backups than
\* max_backups_per_asset, and the backups a call removes are no newer by
\* modification time than any it leaves.
C29_BackupsBounded ==
    [][(backup_settings.enable_backups /\ backup_settings.max_backups_per_asset >= 1)
       => /\ Cardinality(backups) <= backup_settings.max_backups_per_asset
          /\ Cardinality(backups') <= backup_settings.max_backups_per_asset
          /\ \A d \in backups \ backups' :
                \A b \in backups \cap backups' : d.mtime <= b.mtime]_vars

\* One backup allowed, an FX asset whose raw file existed before the first
\* run, all runs on day 1: the backup made by the first run (mtime 0) was
\* unlinked by the second, which then copied the raw file of mtime 1.
C29_Witness ==
    /\ backup_settings = [enable_backups |-> TRUE, max_backups_per_asset |-> 1]
    /\ asset_type = "FX"
    /\ today = 1
    /\ \E i \in Rows(raw_csv.rows) : raw_csv.rows[i].Date = RawDate(0)
    /\ \E b \in backups : b.day = 1 /\ b.mtime = 1
    /\ Cardinality(backups) = 1

\* Two backups of different days and two allowed: a third day's run has to
\* unlink the older one.
C29_FullDirectory ==
    /\ backup_settings = [enable_backups |-> TRUE, max_backups_per_asset |-> 2]
    /\ {b.day : b \in backups} = {1, 2}

====
